---- MODULE Spec2Model ----
(***************************************************************************)
(* Model of src/resource/world/mod.rs of wofc: the lazy_static table of    *)
(* planet parameters and the seed-configuring WorldBuilder.                *)
(*                                                                         *)
(* f64 parameters are held as fixed-point integers in units of 1/Unit.     *)
(* Unit = 25 * 2^12 makes every literal of the table (0.48 = 12/25, the    *)
(* others dyadic) and both derived values (a division by 2 and by 4) exact,*)
(* so that every comparison below is the comparison of the real values.    *)
(***************************************************************************)
EXTENDS Integers, Sequences, FiniteSets

VARIABLES
    statics,    \* lazy_static cells forced so far: name -> value
    builders,   \* live WorldBuilder values: builder id -> [current_seed]
    drawn,      \* history: the seed new() drew for each live builder
    calls,      \* history: the set_seed arguments given to each live builder
    config,     \* a Config record under examination (derivation, build)
    result      \* what the derivation or build() returned for config

vars == <<statics, builders, drawn, calls, config, result>>

----------------------------------------------------------------------------
(* Bounds and value domains *)

\* Longest chain of set_seed calls followed on one builder.
MaxCalls == 2

\* The fixed-point representation of 1.0.
Unit == 25 * 4096

\* A decimal literal n/d of the source, in fixed point.
Dec(n, d) == (n * Unit) \div d

\* A u32 is held as its two 16-bit halves <<high, low>>: the value
\* high * 2^16 + low, which covers 0 .. 2^32 - 1 without leaving the range of
\* the integers the checker computes with.
Half == 2^16

U32(high, low) == <<high, low>>

\* Largest u32, 2^32 - 1.
U32Max == U32(Half - 1, Half - 1)

\* Wrapping u32 addition.
AddU32(a, b) ==
    LET low == a[2] + b[2]
    IN  U32((a[1] + b[1] + low \div Half) % Half, low % Half)

\* Seeds tried, as drawn by new() and as given to set_seed: both ends of the
\* u32 range (new and set_seed store a seed and compute nothing from it).
SeedValues == {U32(0, 0), U32Max}

\* The two builder slots (two builders are what the determinism claim needs).
BuilderIds == {"b1", "b2"}

\* The empty function: no cell forced, no builder alive.
Empty == [x \in {} |-> 0]

\* f with x mapped to v.
Put(f, x, v) == [y \in DOMAIN f \cup {x} |-> IF y = x THEN v ELSE f[y]]

----------------------------------------------------------------------------
(* The lazy_static table, mod.rs lines 6-95 *)

CURRENT_SEED == U32(0, 0)

SEA_LEVEL == Dec(0, 10)

SHELF_LEVEL_unsigned == Dec(375, 1000)
SHELF_LEVEL == -Dec(375, 1000)

MOUNTAINS_AMOUNT == Dec(48, 100)

\* The derivation rule of HILLS_AMOUNT: (1.0 + *MOUNTAINS_AMOUNT) / 2.0
hills_amount_no_halving(m) == Unit + m
hills_amount_minus(m) == (Unit - m) \div 2
hills_amount(m) == (Unit + m) \div 2

HILLS_AMOUNT == hills_amount(MOUNTAINS_AMOUNT)

BADLANDS_AMOUNT == Dec(3125, 10000)

MOUNTAIN_GLACIATION == Dec(375, 1000)

\* The derivation rule of CONTINENT_HEIGHT_SCALE: (1.0 - *SEA_LEVEL) / 4.0
continent_height_scale(sea) == (Unit - sea) \div 4

CONTINENT_HEIGHT_SCALE == continent_height_scale(SEA_LEVEL)

\* The cells of the table the model tracks.
StaticNames == {"CURRENT_SEED", "SEA_LEVEL", "SHELF_LEVEL", "MOUNTAINS_AMOUNT",
                "HILLS_AMOUNT", "BADLANDS_AMOUNT", "MOUNTAIN_GLACIATION",
                "CONTINENT_HEIGHT_SCALE"}

\* The initializer expression of each cell.
Initializer(name) ==
    CASE name = "CURRENT_SEED" -> CURRENT_SEED
      [] name = "SEA_LEVEL" -> SEA_LEVEL
      [] name = "SHELF_LEVEL" -> SHELF_LEVEL
      [] name = "MOUNTAINS_AMOUNT" -> MOUNTAINS_AMOUNT
      [] name = "HILLS_AMOUNT" -> HILLS_AMOUNT
      [] name = "BADLANDS_AMOUNT" -> BADLANDS_AMOUNT
      [] name = "MOUNTAIN_GLACIATION" -> MOUNTAIN_GLACIATION
      [] name = "CONTINENT_HEIGHT_SCALE" -> CONTINENT_HEIGHT_SCALE

\* The cells an initializer dereferences, which it forces first.
Forces(name) ==
    CASE name = "HILLS_AMOUNT" -> {"MOUNTAINS_AMOUNT"}
      [] name = "CONTINENT_HEIGHT_SCALE" -> {"SEA_LEVEL"}
      [] OTHER -> {}

\* First dereference of a cell: its initializer runs once and the value stays.
Deref(name) ==
    /\ name \notin DOMAIN statics
    /\ statics' = [n \in DOMAIN statics \cup Forces(name) \cup {name} |->
                     IF n \in DOMAIN statics THEN statics[n] ELSE Initializer(n)]
    /\ UNCHANGED <<builders, drawn, calls, config, result>>

----------------------------------------------------------------------------
(* WorldBuilder, mod.rs lines 97-117 *)

\* WorldBuilder::new with r the value rng.gen::<u32>() returned.
new(r) == [current_seed |-> r]

\* WorldBuilder::set_seed
set_seed_ignored(self, seed) == self
set_seed_mixed(self, seed) ==
    [self EXCEPT !.current_seed = AddU32(self.current_seed, seed)]
set_seed_once(self, seed) ==
    IF self.current_seed = CURRENT_SEED THEN [self EXCEPT !.current_seed = seed]
    ELSE self
set_seed(self, seed) == [self EXCEPT !.current_seed = seed]

\* A builder is created in slot b (whatever the slot held is dropped).
New(b) ==
    \E r \in SeedValues :
        /\ builders' = Put(builders, b, new(r))
        /\ drawn' = Put(drawn, b, r)
        /\ calls' = Put(calls, b, <<>>)
        /\ UNCHANGED <<statics, config, result>>

\* b.set_seed(seed) that also stores the seed in the process-wide cell.
SetSeedGlobal(b, seed) ==
    /\ b \in DOMAIN builders
    /\ Len(calls[b]) < MaxCalls
    /\ builders' = [builders EXCEPT ![b] = set_seed(builders[b], seed)]
    /\ calls' = [calls EXCEPT ![b] = Append(calls[b], seed)]
    /\ statics' = Put(statics, "CURRENT_SEED", seed)
    /\ UNCHANGED <<drawn, config, result>>

\* b = b.set_seed(seed)
SetSeed(b, seed) ==
    /\ b \in DOMAIN builders
    /\ Len(calls[b]) < MaxCalls
    /\ builders' = [builders EXCEPT ![b] = set_seed(builders[b], seed)]
    /\ calls' = [calls EXCEPT ![b] = Append(calls[b], seed)]
    /\ UNCHANGED <<statics, drawn, config, result>>

----------------------------------------------------------------------------
(* The program: builders are created and configured, cells are forced *)

NoConfig == [kind |-> "none"]
NoResult == [kind |-> "none"]

Init ==
    /\ statics = Empty
    /\ builders = Empty
    /\ drawn = Empty
    /\ calls = Empty
    /\ config = NoConfig
    /\ result = NoResult

Next ==
    \/ \E b \in BuilderIds : New(b)
    \/ \E b \in BuilderIds, seed \in SeedValues : SetSeed(b, seed)
    \/ \E name \in StaticNames : Deref(name)

Spec == Init /\ [][Next]_vars

----------------------------------------------------------------------------
(* The two derivation rules as functions of their input *)

\* Every MOUNTAINS_AMOUNT of [0.0, 1.0] and every SEA_LEVEL of [-1.0, 1.0] on
\* the grid of step 4/Unit, on which both divisions are exact.
AmountInputs == {4 * k : k \in 0 .. (Unit \div 4)}
LevelInputs == {4 * k : k \in -(Unit \div 4) .. (Unit \div 4)}

InitDerive ==
    /\ statics = Empty
    /\ builders = Empty
    /\ drawn = Empty
    /\ calls = Empty
    /\ config \in [kind : {"MOUNTAINS_AMOUNT"}, value : AmountInputs]
                 \cup [kind : {"SEA_LEVEL"}, value : LevelInputs]
    /\ result = NoResult

\* HILLS_AMOUNT's initializer run on the MOUNTAINS_AMOUNT of config.
DeriveHills ==
    /\ config.kind = "MOUNTAINS_AMOUNT"
    /\ result = NoResult
    /\ result' = [kind |-> "HILLS_AMOUNT", value |-> hills_amount(config.value)]
    /\ UNCHANGED <<statics, builders, drawn, calls, config>>

\* CONTINENT_HEIGHT_SCALE's initializer run on the SEA_LEVEL of config.
DeriveScale ==
    /\ config.kind = "SEA_LEVEL"
    /\ result = NoResult
    /\ result' = [kind |-> "CONTINENT_HEIGHT_SCALE",
                  value |-> continent_height_scale(config.value)]
    /\ UNCHANGED <<statics, builders, drawn, calls, config>>

NextDerive ==
    \/ DeriveHills
    \/ DeriveScale

SpecDerive == InitDerive /\ [][NextDerive]_vars

----------------------------------------------------------------------------
(* build(): described by the specification (sections 3, 4.6, 7 and 8); no    *)
(* build is defined in mod.rs                                               *)

\* The Config that the table of mod.rs amounts to.
DefaultConfig ==
    [kind |-> "Config", SEA_LEVEL |-> SEA_LEVEL, SHELF_LEVEL |-> SHELF_LEVEL,
     MOUNTAINS_AMOUNT |-> MOUNTAINS_AMOUNT, HILLS_AMOUNT |-> HILLS_AMOUNT,
     BADLANDS_AMOUNT |-> BADLANDS_AMOUNT]

\* Levels and amounts tried: the table's own values and the nearest grid
\* values outside the permitted ranges.
LevelSamples == {-Unit - 4, SHELF_LEVEL, SEA_LEVEL, Unit + 4}
AmountSamples == {-4, MOUNTAINS_AMOUNT, HILLS_AMOUNT, Unit + 4}

Configs ==
    [kind : {"Config"}, SEA_LEVEL : LevelSamples, SHELF_LEVEL : LevelSamples,
     MOUNTAINS_AMOUNT : AmountSamples, HILLS_AMOUNT : AmountSamples,
     BADLANDS_AMOUNT : {BADLANDS_AMOUNT, Unit + 4}]

InUnitRange(a) == 0 <= a /\ a <= Unit
InLevelRange(l) == -Unit <= l /\ l <= Unit

\* The Config invariants of section 3.
ConfigValidNoOrderOfAmounts(cfg) ==
    /\ cfg.SHELF_LEVEL < cfg.SEA_LEVEL
    /\ InUnitRange(cfg.MOUNTAINS_AMOUNT)
    /\ InUnitRange(cfg.HILLS_AMOUNT)
    /\ InUnitRange(cfg.BADLANDS_AMOUNT)
    /\ InLevelRange(cfg.SEA_LEVEL)
    /\ InLevelRange(cfg.SHELF_LEVEL)
ConfigValid(cfg) ==
    /\ cfg.SHELF_LEVEL < cfg.SEA_LEVEL
    /\ cfg.HILLS_AMOUNT < cfg.MOUNTAINS_AMOUNT
    /\ InUnitRange(cfg.MOUNTAINS_AMOUNT)
    /\ InUnitRange(cfg.HILLS_AMOUNT)
    /\ InUnitRange(cfg.BADLANDS_AMOUNT)
    /\ InLevelRange(cfg.SEA_LEVEL)
    /\ InLevelRange(cfg.SHELF_LEVEL)

\* WorldBuilder::build: Err(ConfigError) or a World holding the seed and Config.
build(self, cfg) ==
    IF ConfigValid(cfg)
    THEN [kind |-> "World", seed |-> self.current_seed, config |-> cfg]
    ELSE [kind |-> "ConfigError"]

InitBuild ==
    /\ statics = Empty
    /\ builders = Empty
    /\ drawn = Empty
    /\ calls = Empty
    /\ config \in Configs
    /\ result = NoResult

\* b.build() on the Config under examination.
Build(b) ==
    /\ b \in DOMAIN builders
    /\ result = NoResult
    /\ result' = build(builders[b], config)
    /\ UNCHANGED <<statics, builders, drawn, calls, config>>

\* One builder is followed: new(), any set_seed calls, build().
NextBuild ==
    \/ New("b1")
    \/ \E seed \in SeedValues : SetSeed("b1", seed)
    \/ Build("b1")

SpecBuild == InitBuild /\ [][NextBuild]_vars

----------------------------------------------------------------------------
(* Properties *)

Last(seq) == seq[Len(seq)]

\* Builders that have been given a seed by set_seed.
Seeded == {b \in DOMAIN builders : calls[b] # <<>>}

\* C1: every set_seed(s) step leaves the builder with current_seed = s,
\* whatever seed it held before the call (a drawn one or an earlier argument).
C1_SetSeedOverrides ==
    [][\A b \in BuilderIds :
          (/\ b \in DOMAIN calls
           /\ b \in DOMAIN calls'
           /\ Len(calls'[b]) = Len(calls[b]) + 1)
          => builders'[b].current_seed = Last(calls'[b])]_vars

\* C1 witness: a builder that drew one seed was given the other and holds it.
C1_Witness ==
    \E b \in Seeded :
        /\ Len(calls[b]) = 1
        /\ drawn[b] # calls[b][1]
        /\ builders[b].current_seed = calls[b][1]

\* C2 (as claimed): once forced, HILLS_AMOUNT is below MOUNTAINS_AMOUNT.
C2_HillsBelowMountains ==
    {"HILLS_AMOUNT", "MOUNTAINS_AMOUNT"} \subseteq DOMAIN statics
        => statics["HILLS_AMOUNT"] < statics["MOUNTAINS_AMOUNT"]

\* The three conditions C3 names.
C3_Violates(cfg) ==
    \/ cfg.SHELF_LEVEL >= cfg.SEA_LEVEL
    \/ \E a \in {cfg.MOUNTAINS_AMOUNT, cfg.HILLS_AMOUNT, cfg.BADLANDS_AMOUNT} :
           a < 0 \/ a > Unit
    \/ cfg.HILLS_AMOUNT >= cfg.MOUNTAINS_AMOUNT

\* C3: build() returns ConfigError whenever SHELF_LEVEL >= SEA_LEVEL, an amount
\* is outside [0, 1] or HILLS_AMOUNT >= MOUNTAINS_AMOUNT; it returns a World only
\* when none of these holds, and then a whole one (holding that Config).
C3_BuildValidates ==
    result # NoResult =>
        /\ result.kind \in {"World", "ConfigError"}
        /\ C3_Violates(config) => result.kind = "ConfigError"
        /\ result.kind = "World" =>
               /\ ~C3_Violates(config)
               /\ result.config = config

\* C3 witness: build() rejected a Config whose only fault is the order of the
\* hills and mountains amounts (the table's own values).
C3_Witness ==
    /\ config = DefaultConfig
    /\ result.kind = "ConfigError"

\* C4: two builders whose latest set_seed argument is the same are in the same
\* state, whatever each drew in new().
C4_SameSeedSameState ==
    \A b1 \in Seeded, b2 \in Seeded :
        Last(calls[b1]) = Last(calls[b2]) => builders[b1] = builders[b2]

\* C4 witness: two builders that drew different seeds, each given the same seed
\* once, are equal.
C4_Witness ==
    /\ Seeded = BuilderIds
    /\ drawn["b1"] # drawn["b2"]
    /\ Len(calls["b1"]) = 1
    /\ calls["b1"] = calls["b2"]
    /\ builders["b1"] = builders["b2"]

\* C5: once forced, SHELF_LEVEL is below SEA_LEVEL and both are in [-1, 1].
C5_LevelsInvariant ==
    /\ {"SHELF_LEVEL", "SEA_LEVEL"} \subseteq DOMAIN statics
           => statics["SHELF_LEVEL"] < statics["SEA_LEVEL"]
    /\ \A n \in {"SHELF_LEVEL", "SEA_LEVEL"} \cap DOMAIN statics :
           -Unit <= statics[n] /\ statics[n] <= Unit

\* C5 witness: both levels have been forced.
C5_Witness ==
    /\ {"SHELF_LEVEL", "SEA_LEVEL"} \subseteq DOMAIN statics
    /\ statics["SHELF_LEVEL"] # statics["SEA_LEVEL"]

\* C6: once forced, each of MOUNTAINS_AMOUNT, HILLS_AMOUNT and BADLANDS_AMOUNT
\* is in [0, 1].
C6_AmountsInRange ==
    \A n \in {"MOUNTAINS_AMOUNT", "HILLS_AMOUNT", "BADLANDS_AMOUNT"}
             \cap DOMAIN statics :
        0 <= statics[n] /\ statics[n] <= Unit

\* C6 witness: the three amounts have been forced, HILLS_AMOUNT by its rule.
C6_Witness ==
    /\ {"MOUNTAINS_AMOUNT", "HILLS_AMOUNT", "BADLANDS_AMOUNT"}
           \subseteq DOMAIN statics
    /\ statics["HILLS_AMOUNT"] = hills_amount(statics["MOUNTAINS_AMOUNT"])

\* C7 (as claimed): once forced, MOUNTAIN_GLACIATION is greater than 1.0.
C7_GlaciationAboveOne ==
    "MOUNTAIN_GLACIATION" \in DOMAIN statics
        => statics["MOUNTAIN_GLACIATION"] > Unit

\* C8: after a non-empty chain of set_seed calls the builder is in the state
\* one set_seed of the last argument leaves a fresh builder in; and from there
\* set_seed(a).set_seed(c) equals set_seed(c), set_seed(c).set_seed(c) equals
\* set_seed(c).
C8_LastWriteWins ==
    \A b \in Seeded :
        /\ \A r \in SeedValues :
               builders[b] = set_seed(new(r), Last(calls[b]))
        /\ \A a \in SeedValues, c \in SeedValues :
               /\ set_seed(set_seed(builders[b], a), c)
                      = set_seed(builders[b], c)
               /\ set_seed(set_seed(builders[b], c), c)
                      = set_seed(builders[b], c)

\* C8 witness: a chain of two different arguments ended on the second.
C8_Witness ==
    \E b \in Seeded :
        /\ Len(calls[b]) = 2
        /\ calls[b][1] # calls[b][2]
        /\ builders[b].current_seed = calls[b][2]

\* C9: the process-wide CURRENT_SEED is 0 whenever it is read, no step changes
\* a forced cell, and a step on a builder (new, set_seed) changes no cell.
C9_SeedNotGlobal ==
    /\ []("CURRENT_SEED" \in DOMAIN statics
              => statics["CURRENT_SEED"] = U32(0, 0))
    /\ [][/\ \A n \in DOMAIN statics :
                 n \in DOMAIN statics' /\ statics'[n] = statics[n]
          /\ (builders' # builders \/ calls' # calls) => statics' = statics]_vars

\* C9 witness: a builder holds a seed other than 0 given by set_seed while the
\* forced CURRENT_SEED is 0.
C9_Witness ==
    /\ "CURRENT_SEED" \in DOMAIN statics
    /\ statics["CURRENT_SEED"] = U32(0, 0)
    /\ \E b \in Seeded : builders[b].current_seed # U32(0, 0)

====
